---- MODULE Spec2Model ----
(***************************************************************************)
(* A model of usdzip (pxr/usd/bin/usdzip/usdzip.py): main, the package     *)
(* builder _CreateUsdzPackage, the compliance gate _CheckCompliance and    *)
(* the list/dump reports, together with the archive writer and reader      *)
(* (Usd.ZipFileWriter, Usd.ZipFile) they drive.                            *)
(*                                                                         *)
(* --verbose only prints to stdout and is left out.                        *)
(*                                                                         *)
(* File names are byte strings (sequences of character codes), a path is   *)
(* the sequence of its components, and PathStr joins them with "/".        *)
(***************************************************************************)
EXTENDS Integers, Sequences, FiniteSets, TLC

\* ---------------------------------------------------------------- bounds

\* The largest number of inputFiles given on the command line.
MaxArgs == 2

\* ------------------------------------------------------- the file system

\* Character codes: "." is 46, "/" is 47, "a" is 97, "c" 99, "d" 100,
\* "h" 104, "m" 109, "p" 112, "s" 115, "x" 120.
pA   == << <<97>> >>                       \* a          (file)
pD   == << <<100>> >>                      \* d          (directory)
pDc  == << <<100>>, <<99>> >>              \* d/c        (file)
pDx  == << <<100>>, <<120>> >>             \* d/x        (file)
pDh  == << <<100>>, <<46, 104>> >>         \* d/.h       (hidden file)
pDs  == << <<100>>, <<115>> >>             \* d/s        (directory)
pDsp == << <<100>>, <<115>>, <<112>> >>    \* d/s/p      (file)
pM   == << <<109>> >>                      \* m          (does not exist)

Dirs  == {pD, pDs}
Files == {pA, pDc, pDx, pDh, pDsp}
Nodes == Dirs \cup Files

\* The byte size a file has when it is not empty.
NominalSize(f) ==
    CASE f = pA   -> 10
      [] f = pDc  -> 31
      [] f = pDx  -> 64
      [] f = pDh  -> 7
      [] f = pDsp -> 100

\* The paths that may be named on the command line.
ArgPaths == {pA, pD, pDx, pDs, pM}

\* os.path.join / the path as the string the program handles.
RECURSIVE PathStr(_)
PathStr(p) ==
    IF Len(p) = 0 THEN << >>
    ELSE IF Len(p) = 1 THEN p[1]
    ELSE p[1] \o <<47>> \o PathStr(Tail(p))

\* Python's str comparison: bytewise lexicographic, a proper prefix first.
RECURSIVE StrLess(_, _)
StrLess(s, t) ==
    IF Len(s) = 0 THEN Len(t) > 0
    ELSE IF Len(t) = 0 THEN FALSE
    ELSE IF s[1] # t[1] THEN s[1] < t[1]
    ELSE StrLess(Tail(s), Tail(t))

isdir(p) == p \in Dirs

IsChildOf(q, p) ==
    /\ Len(q) = Len(p) + 1
    /\ SubSeq(q, 1, Len(p)) = p

Children(p) == {q \in Nodes : IsChildOf(q, p)}

Basename(p) == p[Len(p)]

\* glob.glob(os.path.join(f, '*')): the entries of f that '*' matches. A
\* name beginning with "." is matched only by a pattern that begins with
\* ".", so '*' leaves the hidden entries out. The result is in arbitrary
\* order, hence a set.
Glob(f) == {q \in Children(f) : Basename(q)[1] # 46}

\* filesInDir = [f for f in filesInDir if not os.path.isdir(f)] unless recurse
FilterDirs(S, recurse) == IF recurse THEN S ELSE {q \in S : ~isdir(q)}

\* list.sort() of path strings
RECURSIVE SortPaths(_)
SortPaths(S) ==
    IF S = {} THEN << >>
    ELSE LET m == CHOOSE x \in S :
                    \A y \in S \ {x} : StrLess(PathStr(x), PathStr(y))
         IN  <<m>> \o SortPaths(S \ {m})

\* filesToAdd += filesInDir  (appended at the END of the worklist)
ExtendDepthFirst(rest, filesInDir) == filesInDir \o rest
ExtendWorklist(rest, filesInDir) == rest \o filesInDir

\* os.path.getsize(f) > 0
KeepAny(size) == TRUE
KeepFile(size) == size > 0

\* fileList.append(f)
PrependFile(fileList, f) == <<f>> \o fileList
AppendFile(fileList, f) == Append(fileList, f)

\* _CheckCompliance's verdict: len(errors) == 0 and len(failedChecks) == 0
ErrorsOnly(nErrors, nFailedChecks) == nErrors = 0
ComplianceOk(nErrors, nFailedChecks) == nErrors = 0 /\ nFailedChecks = 0

\* ------------------------------------------------- the archive format

FixedHeaderSize == 30
Alignment == 64

\* The minimal padding in 0..Alignment-1 that brings offset to a multiple
\* of Alignment.
NoPadding(offset) == 0
Padding(offset) == (Alignment - (offset % Alignment)) % Alignment

\* addFile: the entry written at position pos for a file of the given name
\* and size: local header, name, padding, then the content verbatim.
WriteEntry(pos, name, size) ==
    LET raw == pos + FixedHeaderSize + Len(name)
        pad == Padding(raw)
    IN  [name |-> name, headerOffset |-> pos, extraLen |-> pad,
         dataOffset |-> raw + pad, size |-> size, uncompressedSize |-> size]

\* The central-directory record of an entry: what Save writes for it.
DirRecord(e) ==
    [name |-> e.name, headerOffset |-> e.headerOffset, extraLen |-> e.extraLen,
     size |-> e.size, uncompressedSize |-> e.uncompressedSize]

CentralDirectory(entries) == [i \in 1..Len(entries) |-> DirRecord(entries[i])]

NoWriter == [state |-> "None", pos |-> 0, entries |-> << >>]
AbsentFile  == [kind |-> "absent",  dir |-> << >>]
InvalidFile == [kind |-> "invalid", dir |-> << >>]
ArchiveFile(entries) == [kind |-> "archive", dir |-> CentralDirectory(entries)]

\* Usd.ZipFileWriter.CreateNew(path)
CreateNew == [state |-> "Open", pos |-> 0, entries |-> << >>]

\* A name collides when an entry of that name was already added.
Collides(w, name) == \E i \in 1..Len(w.entries) : w.entries[i].name = name

\* usdzWriter.AddFile(f), when it succeeds
AddFile(w, name, size) ==
    LET e == WriteEntry(w.pos, name, size)
    IN  [w EXCEPT !.entries = Append(@, e), !.pos = e.dataOffset + size]

\* Leaving the "with" block: Save() when the block ends without an
\* exception (by falling off its end or by a return), Discard() when an
\* exception leaves it.
ExitWriter(w, raised) ==
    [w EXCEPT !.state = IF raised THEN "Discarded" ELSE "Finalized"]

\* The file left at the target path by a writer that has been closed.
FileAfter(w) ==
    IF w.state = "Finalized" THEN ArchiveFile(w.entries) ELSE AbsentFile

\* Usd.ZipFile.Open(path): the parsed central directory, or none.
CanOpen(file) == file.kind = "archive"

\* zipFile.GetFileNames()
GetFileNames(file) == [i \in 1..Len(file.dir) |-> file.dir[i].name]

\* zipFile.GetFileInfo(name): the data offset is computed from the entry's
\* local header: past the fixed header, the name and the padding field.
GetFileInfo(file, name) ==
    LET i == CHOOSE k \in 1..Len(file.dir) : file.dir[k].name = name
        r == file.dir[i]
    IN  [dataOffset |-> r.headerOffset + FixedHeaderSize + Len(r.name) + r.extraLen,
         size |-> r.size, uncompressedSize |-> r.uncompressedSize]

\* ------------------------------------------------------------ reports

DumpLine(kind, offset, comp, uncomp, name, count) ==
    [kind |-> kind, offset |-> offset, comp |-> comp, uncomp |-> uncomp,
     name |-> name, count |-> count]

\* _DumpContents: two header lines, one line per entry (offset, size,
\* uncompressed size, name), a rule and the "%d files total" line.
DumpContents(file) ==
    LET fileNames == GetFileNames(file)
        row(i) == LET fileInfo == GetFileInfo(file, fileNames[i])
                  IN  DumpLine("entry", fileInfo.dataOffset, fileInfo.size,
                               fileInfo.uncompressedSize, fileNames[i], 0)
    IN  << DumpLine("header", 0, 0, 0, << >>, 0),
           DumpLine("header", 0, 0, 0, << >>, 0) >>
        \o [i \in 1..Len(fileNames) |-> row(i)]
        \o << DumpLine("rule", 0, 0, 0, << >>, 0),
              DumpLine("total", 0, 0, 0, << >>, Len(fileNames)) >>

\* _ListContents: one line per entry name
ListContents(file) == GetFileNames(file)

NoReport == [produced |-> FALSE, lines |-> << >>]
ReportOf(lines) == [produced |-> TRUE, lines |-> lines]

\* main, lines 235-245: which branch the list/dump request takes
ReportNoExistsCheck(exists, opened) ==
    IF opened THEN "report" ELSE "failopen"
ReportBranch(exists, opened) ==
    IF exists THEN (IF opened THEN "report" ELSE "failopen") ELSE "notfound"

\* _CreateUsdzPackage, lines 94-99: a failed AddFile is reported and re-raised
AddFailureSwallowed == FALSE
AddFailureRaises == TRUE

\* The package UsdUtils.CreateNewUsdzPackage leaves for an asset.
AssetPackage ==
    ArchiveFile(AddFile(CreateNew, PathStr(pA), NominalSize(pA)).entries)

PathExists(p) == p \in Nodes

\* ---------------------------------------------------------------- state

VARIABLES
    args,          \* the parsed command line
    fsize,         \* os.path.getsize of every file
    target,        \* the file at the usdzFile path
    pc,            \* where main is
    filesToAdd,    \* _CreateUsdzPackage's worklist
    fileList,      \* the files to add, in order
    filesToAddTag, \* history: depth and expansion of each worklist item
    fileListTag,   \* history: depth and expansion of each fileList item
    nextBatch,     \* history: the number of the next directory expansion
    visited,       \* history: every non-directory popped from the worklist
    usdzWriter,    \* the Usd.ZipFileWriter of the "with" block
    addIdx,        \* the position of "for f in fileList"
    checker,       \* what the compliance checker reported, once it has run
    addCalls,      \* the paths AddFile was called with, in order
    createCalls,   \* how often UsdUtils.CreateNew*UsdzPackage was called
    success,       \* main's success
    stderr,        \* the messages _Err wrote
    dumpOut,       \* the dump report
    listOut,       \* the list report
    exitStatus     \* the process's exit status, once pc is final

vars == << args, fsize, target, pc, filesToAdd, fileList, filesToAddTag,
           fileListTag, nextBatch, visited, usdzWriter, addIdx, checker,
           addCalls, createCalls, success, stderr, dumpOut, listOut,
           exitStatus >>

RECURSIVE SeqsUpTo(_, _)
SeqsUpTo(S, n) ==
    IF n = 0 THEN { << >> }
    ELSE LET shorter == SeqsUpTo(S, n - 1)
         IN  shorter \cup {Append(s, x) : s \in {t \in shorter : Len(t) = n - 1},
                                           x \in S}

ArgLists == SeqsUpTo(ArgPaths, MaxArgs)

Tag(depth, batch) == [depth |-> depth, batch |-> batch]

\* What UsdUtils.ComplianceChecker(rootLayer, ...) was given and reported.
NotRun == [ran |-> FALSE, rootLayer |-> << >>, errors |-> 0, failedChecks |-> 0]
Checked(rootLayer, nErrors, nFailedChecks) ==
    [ran |-> TRUE, rootLayer |-> rootLayer, errors |-> nErrors,
     failedChecks |-> nFailedChecks]

\* The path the asset resolver gives for --asset / --arkitAsset.
ResolvedAsset == pA

Init ==
    /\ args \in [inputFiles : ArgLists, recurse : BOOLEAN,
                 checkCompliance : BOOLEAN, asset : BOOLEAN,
                 arkitAsset : BOOLEAN, listContents : BOOLEAN,
                 dumpContents : BOOLEAN]
    /\ \E empty \in SUBSET (Files \ {pDh}) :
          fsize = [f \in Files |-> IF f \in empty THEN 0 ELSE NominalSize(f)]
    /\ target \in {AbsentFile, InvalidFile, ArchiveFile(<< >>)}
    /\ pc = "main"
    /\ filesToAdd = << >>
    /\ fileList = << >>
    /\ filesToAddTag = << >>
    /\ fileListTag = << >>
    /\ nextBatch = 1
    /\ visited = << >>
    /\ usdzWriter = NoWriter
    /\ addIdx = 1
    /\ checker = NotRun
    /\ addCalls = << >>
    /\ createCalls = 0
    /\ success = TRUE
    /\ stderr = << >>
    /\ dumpOut = NoReport
    /\ listOut = NoReport
    /\ exitStatus = 0

\* -------------------------------------------------------------- actions

Creating == args.asset \/ args.arkitAsset \/ Len(args.inputFiles) > 0

\* parser.error: lines 177-182 and 200-204
BadUsage ==
    \/ args.asset /\ args.arkitAsset
    \/ args.asset /\ Len(args.inputFiles) > 0
    \/ ~Creating /\ args.checkCompliance

UsageError ==
    /\ pc = "main"
    /\ BadUsage
    /\ pc' = "usage"
    /\ exitStatus' = 2
    /\ UNCHANGED << args, fsize, target, filesToAdd, fileList, filesToAddTag,
                    fileListTag, nextBatch, visited, usdzWriter, addIdx,
                    checker, addCalls, createCalls, success, stderr, dumpOut,
                    listOut >>

\* main line 207 into _CreateUsdzPackage line 61: the writer is opened on
\* the target path.
BeginCreate ==
    /\ pc = "main"
    /\ ~BadUsage
    /\ Len(args.inputFiles) > 0
    /\ usdzWriter' = CreateNew
    /\ target' = InvalidFile
    /\ filesToAdd' = args.inputFiles
    /\ filesToAddTag' = [i \in 1..Len(args.inputFiles) |-> Tag(0, 0)]
    /\ fileList' = << >>
    /\ pc' = "expand"
    /\ UNCHANGED << args, fsize, fileListTag, nextBatch, visited, addIdx,
                    checker, addCalls, createCalls, success, stderr, dumpOut,
                    listOut, exitStatus >>

\* One turn of "while filesToAdd", the front item a directory (lines 65-77).
ExpandDir ==
    /\ pc = "expand"
    /\ filesToAdd # << >>
    /\ LET f == Head(filesToAdd)
           filesInDir == SortPaths(FilterDirs(Glob(f), args.recurse))
           tags == [i \in 1..Len(filesInDir) |->
                       Tag(Head(filesToAddTag).depth + 1, nextBatch)]
       IN  /\ isdir(f)
           /\ filesToAdd' = ExtendWorklist(Tail(filesToAdd), filesInDir)
           /\ filesToAddTag' = ExtendWorklist(Tail(filesToAddTag), tags)
    /\ nextBatch' = nextBatch + 1
    /\ UNCHANGED << args, fsize, target, pc, fileList, fileListTag, visited,
                    usdzWriter, addIdx, checker, addCalls, createCalls,
                    success, stderr, dumpOut, listOut, exitStatus >>

\* One turn of "while filesToAdd", the front item a file (lines 65-66 and
\* 78-84): kept when it is not empty, skipped with a message otherwise.
ExpandFile ==
    /\ pc = "expand"
    /\ filesToAdd # << >>
    /\ LET f == Head(filesToAdd)
       IN  /\ ~isdir(f)
           /\ PathExists(f)
           /\ visited' = Append(visited, f)
           /\ IF KeepFile(fsize[f])
              THEN /\ fileList' = AppendFile(fileList, f)
                   /\ fileListTag' = AppendFile(fileListTag, Head(filesToAddTag))
                   /\ stderr' = stderr
              ELSE /\ stderr' = Append(stderr, "skipping-empty-file")
                   /\ UNCHANGED << fileList, fileListTag >>
    /\ filesToAdd' = Tail(filesToAdd)
    /\ filesToAddTag' = Tail(filesToAddTag)
    /\ UNCHANGED << args, fsize, target, pc, nextBatch, usdzWriter, addIdx,
                    checker, addCalls, createCalls, success, dumpOut,
                    listOut, exitStatus >>

\* The front item does not exist: os.path.isdir is false of it and
\* os.path.getsize (line 81) raises, which leaves the "with" block as an
\* exception.
ExpandMissing ==
    /\ pc = "expand"
    /\ filesToAdd # << >>
    /\ ~isdir(Head(filesToAdd))
    /\ ~PathExists(Head(filesToAdd))
    /\ usdzWriter' = ExitWriter(usdzWriter, TRUE)
    /\ target' = FileAfter(usdzWriter')
    /\ pc' = "raised"
    /\ exitStatus' = 1
    /\ UNCHANGED << args, fsize, filesToAdd, fileList, filesToAddTag,
                    fileListTag, nextBatch, visited, addIdx, checker,
                    addCalls, createCalls, success, stderr, dumpOut, listOut >>

\* The worklist is empty: lines 86-89. With checkCompliance and a file to
\* add, the checker runs on fileList[0]; a failing verdict returns False
\* from inside the "with" block, which ends the block without an exception.
ComplianceGate ==
    /\ pc = "expand"
    /\ filesToAdd = << >>
    /\ IF args.checkCompliance /\ Len(fileList) > 0
       THEN \E nErrors \in 0..1, nFailedChecks \in 0..1 :
              /\ checker' = Checked(fileList[1], nErrors, nFailedChecks)
              /\ stderr' = stderr
                   \o [i \in 1..(nErrors + nFailedChecks) |-> "compliance"]
              /\ IF ComplianceOk(nErrors, nFailedChecks)
                 THEN /\ pc' = "add"
                      /\ UNCHANGED << usdzWriter, target, success >>
                 ELSE /\ usdzWriter' = ExitWriter(usdzWriter, FALSE)
                      /\ target' = FileAfter(usdzWriter')
                      /\ success' = FALSE
                      /\ pc' = "report"
       ELSE /\ pc' = "add"
            /\ UNCHANGED << checker, stderr, usdzWriter, target, success >>
    /\ addIdx' = 1
    /\ UNCHANGED << args, fsize, filesToAdd, fileList, filesToAddTag,
                    fileListTag, nextBatch, visited, addCalls, createCalls,
                    dumpOut, listOut, exitStatus >>

\* One turn of "for f in fileList" (lines 91-99). AddFile fails when the
\* file cannot be read or its name is already in the archive; the failure
\* is reported, re-raised, and leaves the "with" block as an exception.
AddNext ==
    /\ pc = "add"
    /\ addIdx <= Len(fileList)
    /\ LET f == fileList[addIdx]
       IN  /\ addCalls' = Append(addCalls, f)
           /\ \E readable \in BOOLEAN :
                IF readable /\ ~Collides(usdzWriter, PathStr(f))
                THEN /\ usdzWriter' = AddFile(usdzWriter, PathStr(f), fsize[f])
                     /\ addIdx' = addIdx + 1
                     /\ UNCHANGED << stderr, target, pc, exitStatus >>
                ELSE /\ stderr' = Append(stderr, "failed-to-add-file")
                     /\ IF AddFailureRaises
                        THEN /\ usdzWriter' = ExitWriter(usdzWriter, TRUE)
                             /\ target' = FileAfter(usdzWriter')
                             /\ pc' = "raised"
                             /\ exitStatus' = 1
                             /\ addIdx' = addIdx
                        ELSE /\ addIdx' = addIdx + 1
                             /\ UNCHANGED << usdzWriter, target, pc,
                                             exitStatus >>
    /\ UNCHANGED << args, fsize, filesToAdd, fileList, filesToAddTag,
                    fileListTag, nextBatch, visited, checker, createCalls,
                    success, dumpOut, listOut >>

\* The loop is over: "return True" (line 100) ends the "with" block and
\* main takes the result (lines 208-209).
FinishCreate ==
    /\ pc = "add"
    /\ addIdx > Len(fileList)
    /\ usdzWriter' = ExitWriter(usdzWriter, FALSE)
    /\ target' = FileAfter(usdzWriter')
    /\ success' = TRUE
    /\ pc' = "report"
    /\ UNCHANGED << args, fsize, filesToAdd, fileList, filesToAddTag,
                    fileListTag, nextBatch, visited, addIdx, checker,
                    addCalls, createCalls, stderr, dumpOut, listOut,
                    exitStatus >>

\* main lines 211-221 (--asset) and 222-232 (--arkitAsset): the optional
\* compliance check, then "success and CreateNew...UsdzPackage(...)", whose
\* right operand is evaluated only when success is still true. A checker
\* result or a creation result that is never obtained is fixed (0, TRUE),
\* so that it does not multiply the steps.
CreateFromAsset ==
    \E nErrors \in 0..1, nFailedChecks \in 0..1, created \in BOOLEAN :
      LET passed == IF args.checkCompliance
                    THEN ComplianceOk(nErrors, nFailedChecks) /\ success
                    ELSE success
      IN  /\ IF args.checkCompliance
             THEN /\ checker' = Checked(ResolvedAsset, nErrors, nFailedChecks)
                  /\ stderr' = stderr
                       \o [i \in 1..(nErrors + nFailedChecks) |-> "compliance"]
             ELSE /\ nErrors = 0
                  /\ nFailedChecks = 0
                  /\ UNCHANGED << checker, stderr >>
          /\ IF passed
             THEN /\ createCalls' = createCalls + 1
                  /\ success' = created
                  /\ target' = IF created THEN AssetPackage ELSE AbsentFile
             ELSE /\ created
                  /\ success' = FALSE
                  /\ UNCHANGED << createCalls, target >>
          /\ pc' = "report"
          /\ UNCHANGED << args, fsize, filesToAdd, fileList, filesToAddTag,
                          fileListTag, nextBatch, visited, usdzWriter, addIdx,
                          addCalls, dumpOut, listOut, exitStatus >>

AssetCreate ==
    /\ pc = "main"
    /\ ~BadUsage
    /\ Len(args.inputFiles) = 0
    /\ args.asset
    /\ CreateFromAsset

ArkitCreate ==
    /\ pc = "main"
    /\ ~BadUsage
    /\ Len(args.inputFiles) = 0
    /\ ~args.asset
    /\ args.arkitAsset
    /\ CreateFromAsset

\* Nothing to create: main goes straight to line 234.
NoCreate ==
    /\ pc = "main"
    /\ ~BadUsage
    /\ ~Creating
    /\ pc' = "report"
    /\ UNCHANGED << args, fsize, target, filesToAdd, fileList, filesToAddTag,
                    fileListTag, nextBatch, visited, usdzWriter, addIdx,
                    checker, addCalls, createCalls, success, stderr, dumpOut,
                    listOut, exitStatus >>

\* main lines 234-247: the list and dump reports of the file at the target
\* path, then the exit status.
Report ==
    /\ pc = "report"
    /\ IF args.listContents \/ args.dumpContents
       THEN LET branch == ReportBranch(target.kind # "absent", CanOpen(target))
            IN  /\ dumpOut' = IF branch = "report" /\ args.dumpContents
                              THEN ReportOf(DumpContents(target)) ELSE dumpOut
                /\ listOut' = IF branch = "report" /\ args.listContents
                              THEN ReportOf(ListContents(target)) ELSE listOut
                /\ stderr' = CASE branch = "report"   -> stderr
                               [] branch = "failopen" ->
                                    Append(stderr, "failed-to-open-usdz-file")
                               [] branch = "notfound" ->
                                    Append(stderr, "cant-find-usdz-file")
       ELSE UNCHANGED << dumpOut, listOut, stderr >>
    /\ exitStatus' = IF success THEN 0 ELSE 1
    /\ pc' = "exit"
    /\ UNCHANGED << args, fsize, target, filesToAdd, fileList, filesToAddTag,
                    fileListTag, nextBatch, visited, usdzWriter, addIdx,
                    checker, addCalls, createCalls, success >>

Next ==
    \/ UsageError
    \/ BeginCreate
    \/ ExpandDir
    \/ ExpandFile
    \/ ExpandMissing
    \/ ComplianceGate
    \/ AddNext
    \/ FinishCreate
    \/ AssetCreate
    \/ ArkitCreate
    \/ NoCreate
    \/ Report

Spec == Init /\ [][Next]_vars

\* ------------------------------------------------------------ properties

InFileMode == Len(args.inputFiles) > 0

Returned == pc \in {"report", "exit"}

Finished == pc \in {"report", "exit", "raised"}

ComplianceFailed ==
    checker.ran /\ (checker.errors > 0 \/ checker.failedChecks > 0)

Wrote(msg) == \E i \in 1..Len(stderr) : stderr[i] = msg

NonEmpty(files) == SelectSeq(files, LAMBDA f : fsize[f] > 0)

NamesOf(files) == [i \in 1..Len(files) |-> PathStr(files[i])]

\* C1: when _CreateUsdzPackage has opened the writer and the compliance
\* check of the root layer fails, the writer ends Discarded, not Finalized,
\* and no file is left at the target path when the call has returned.
C1_DiscardOnComplianceFailure ==
    (InFileMode /\ ComplianceFailed /\ Finished)
        => (usdzWriter.state = "Discarded" /\ target.kind = "absent")

\* C2: whenever AddFile fails on a file of the list, whatever its position,
\* the error leaves _CreateUsdzPackage (and main) as an exception, the
\* writer ends Discarded and no file is left at the target path.
C2_DiscardOnAddFailure ==
    Wrote("failed-to-add-file")
        => /\ pc = "raised"
           /\ exitStatus = 1
           /\ usdzWriter.state = "Discarded"
           /\ target.kind = "absent"

\* C2's case: AddFile fails on a name collision after entries were already
\* streamed to the archive.
C2_Witness ==
    /\ Wrote("failed-to-add-file")
    /\ Len(usdzWriter.entries) >= 2
    /\ addIdx = 3
    /\ Collides(usdzWriter, PathStr(fileList[addIdx]))

\* C3: after a successful build from input files, the list report names the
\* entries in the order the non-empty files were met (the order of the
\* command line when it names files only), and the dump report shows for
\* every entry size = uncompressedSize = the byte size of its file, and
\* the count of the files.
C3_RoundTrip ==
    (pc = "exit" /\ InFileMode /\ success)
        => LET added == NonEmpty(visited)
               n == Len(added)
           IN  /\ (\A i \in 1..Len(args.inputFiles) :
                       /\ args.inputFiles[i] \in Files
                       /\ fsize[args.inputFiles[i]] > 0)
                     => added = args.inputFiles
               /\ listOut.produced => listOut.lines = NamesOf(added)
               /\ dumpOut.produced =>
                    /\ Len(dumpOut.lines) = n + 4
                    /\ dumpOut.lines[n + 4].kind = "total"
                    /\ dumpOut.lines[n + 4].count = n
                    /\ \A i \in 1..n :
                         LET row == dumpOut.lines[i + 2]
                         IN  /\ row.kind = "entry"
                             /\ row.name = PathStr(added[i])
                             /\ row.comp = fsize[added[i]]
                             /\ row.uncomp = fsize[added[i]]

\* C3's case: a successful build of two files given out of sorted order,
\* listed and dumped.
C3_Witness ==
    /\ pc = "exit"
    /\ success
    /\ args.inputFiles = << pDx, pA >>
    /\ listOut.produced
    /\ listOut.lines = << PathStr(pDx), PathStr(pA) >>
    /\ dumpOut.produced

\* C4: every recorded entry's data offset is a multiple of 64, and the
\* padding before its content is the least value in 0..63 that makes it so,
\* given the fixed-size header and the length of the entry's name.
C4_Alignment ==
    \A i \in 1..Len(usdzWriter.entries) :
        LET e == usdzWriter.entries[i]
            raw == e.headerOffset + FixedHeaderSize + Len(e.name)
        IN  /\ e.dataOffset % 64 = 0
            /\ e.dataOffset = raw + e.extraLen
            /\ e.extraLen \in 0..63
            /\ \A k \in 0..(e.extraLen - 1) : (raw + k) % 64 # 0
            /\ i > 1 => e.headerOffset = usdzWriter.entries[i - 1].dataOffset
                                           + usdzWriter.entries[i - 1].size

\* C4's case: three entries added, one needing no padding at all and
\* another needing some.
C4_Witness ==
    /\ Len(usdzWriter.entries) = 3
    /\ \E i \in 1..3 : usdzWriter.entries[i].extraLen = 0
    /\ \E i \in 2..3 : usdzWriter.entries[i].extraLen > 0

\* C5: with --checkCompliance, in every creation mode, when the checker
\* reports an error or a failed check the package is not created and main
\* returns 1; in the asset modes the creation call is never made.
C5_ComplianceGate ==
    (pc = "exit" /\ ComplianceFailed)
        => /\ exitStatus = 1
           /\ createCalls = 0
           /\ usdzWriter.state # "Finalized"
           /\ InFileMode => target.kind = "absent"

\* The part of C5 about the asset modes and the exit status, which the
\* code keeps.
C5_AssetModesAndStatus ==
    (pc = "exit" /\ ComplianceFailed) => (exitStatus = 1 /\ createCalls = 0)

\* C6: without recursion, the files added for a directory are exactly its
\* immediate non-directory children, in lexicographic order.
C6_NonRecursiveExpansion ==
    [][ (pc = "expand" /\ filesToAdd # << >> /\ isdir(Head(filesToAdd))
           /\ ~args.recurse)
        => filesToAdd' = Tail(filesToAdd)
              \o SortPaths({q \in Children(Head(filesToAdd)) : ~isdir(q)}) ]_vars

\* What the code does instead: the children whose names begin with "." are
\* left out as well.
C6_VisibleChildrenOnly ==
    [][ (pc = "expand" /\ filesToAdd # << >> /\ isdir(Head(filesToAdd))
           /\ ~args.recurse)
        => filesToAdd' = Tail(filesToAdd)
              \o SortPaths({q \in Children(Head(filesToAdd)) :
                               ~isdir(q) /\ Basename(q)[1] # 46}) ]_vars

\* C7: at the end of a run that asked for a list or a dump, a missing
\* target gives the "can't find" message and no report, a target that is
\* no valid archive gives the "failed to open" message and no report, and a
\* valid archive with no entries gives neither message but the reports
\* asked for, the dump ending with the total line for 0 files.
C7_OpenFailure ==
    (pc = "exit" /\ (args.listContents \/ args.dumpContents))
        => /\ target.kind = "absent" =>
                /\ Wrote("cant-find-usdz-file")
                /\ ~Wrote("failed-to-open-usdz-file")
                /\ ~dumpOut.produced /\ ~listOut.produced
           /\ target.kind = "invalid" =>
                /\ Wrote("failed-to-open-usdz-file")
                /\ ~Wrote("cant-find-usdz-file")
                /\ ~dumpOut.produced /\ ~listOut.produced
           /\ (target.kind = "archive" /\ target.dir = << >>) =>
                /\ ~Wrote("failed-to-open-usdz-file")
                /\ ~Wrote("cant-find-usdz-file")
                /\ dumpOut.produced = args.dumpContents
                /\ listOut.produced = args.listContents
                /\ listOut.lines = << >>
                /\ args.dumpContents =>
                     /\ Len(dumpOut.lines) = 4
                     /\ dumpOut.lines[4].kind = "total"
                     /\ dumpOut.lines[4].count = 0

\* C7's case: a dump was asked of a target that exists and is no archive.
C7_Witness ==
    /\ pc = "exit"
    /\ args.dumpContents
    /\ target.kind = "invalid"
    /\ Wrote("failed-to-open-usdz-file")

\* C8: no empty file is ever passed to AddFile and no entry is empty; a
\* skipped file does not end the build: when the build returns without a
\* failed compliance check it reports success, and AddFile was called with
\* exactly the non-empty files, in their order.
C8_EmptyFilesSkipped ==
    /\ \A i \in 1..Len(addCalls) : fsize[addCalls[i]] > 0
    /\ \A i \in 1..Len(usdzWriter.entries) : usdzWriter.entries[i].size > 0
    /\ (Returned /\ InFileMode /\ ~ComplianceFailed)
          => /\ success
             /\ usdzWriter.state = "Finalized"
             /\ addCalls = NonEmpty(visited)
             /\ GetFileNames(target) = NamesOf(NonEmpty(visited))

\* C8's case: the first file met was empty and skipped, and the two files
\* after it were added by a build that reported success.
C8_Witness ==
    /\ pc = "exit"
    /\ success
    /\ Wrote("skipping-empty-file")
    /\ Len(visited) = 3
    /\ fsize[visited[1]] = 0
    /\ addCalls = << visited[2], visited[3] >>
    /\ Len(target.dir) = 2

\* C9: in the file list (and the worklist behind it) an item reached at a
\* smaller depth precedes every item reached at a greater depth; the files
\* one expansion of a directory yields are contiguous and in lexicographic
\* order among themselves.
C9_BreadthFirst ==
    LET items == fileList \o filesToAdd
        tags == fileListTag \o filesToAddTag
        n == Len(fileList)
    IN  /\ Len(tags) = Len(items)
        /\ \A i, j \in 1..Len(items) :
              i < j => tags[i].depth <= tags[j].depth
        /\ \A i, k \in 1..n :
              (i < k /\ fileListTag[i].batch > 0
                     /\ fileListTag[i].batch = fileListTag[k].batch)
                 => /\ StrLess(PathStr(fileList[i]), PathStr(fileList[k]))
                    /\ fileList[i] \in Children(SubSeq(fileList[k], 1,
                                                    Len(fileList[k]) - 1))
                    /\ \A j \in i..k :
                          fileListTag[j].batch = fileListTag[i].batch

\* C9's case: a recursive expansion has ended with files of depth 1 and of
\* depth 2 in the list, which is not sorted as a whole.
C9_Witness ==
    /\ pc = "add"
    /\ \E i, j \in 1..Len(fileList) :
          /\ i < j
          /\ fileListTag[i].depth = 1
          /\ fileListTag[j].depth = 2
          /\ StrLess(PathStr(fileList[j]), PathStr(fileList[i]))
    /\ \E i \in 1..(Len(fileList) - 1) :
          fileListTag[i].batch > 0 /\ fileListTag[i].batch = fileListTag[i + 1].batch

\* C10: with checkCompliance, the verdict is taken on the first non-empty
\* file before the first AddFile call, and with a failing verdict AddFile is
\* never called: no entry is written.
C10_CompliancePrecedesWriting ==
    /\ (InFileMode /\ args.checkCompliance /\ addCalls # << >>)
          => /\ checker.ran
             /\ checker.errors = 0
             /\ checker.failedChecks = 0
    /\ (InFileMode /\ checker.ran)
          => checker.rootLayer = NonEmpty(visited)[1]
    /\ (InFileMode /\ ComplianceFailed)
          => /\ addCalls = << >>
             /\ usdzWriter.entries = << >>
             /\ pc \in {"report", "exit"}
             /\ ~success

\* C10's case: the check of the first of several files to add has failed
\* and main has ended.
C10_Witness ==
    /\ pc = "exit"
    /\ InFileMode
    /\ ComplianceFailed
    /\ Len(fileList) >= 2

====
